---- MODULE Spec2Model ----
(***************************************************************************)
(* aludel/database.py: prefixed table collections and their metadata       *)
(* store (CollectionMetadata, TableCollection) over an asynchronous SQL    *)
(* connection.  Strings are sequences of tokens; every backend request is  *)
(* issued, executed by the backend and delivered to its callbacks in       *)
(* separate steps.                                                         *)
(***************************************************************************)
EXTENDS Integers, Sequences, FiniteSets, TLC

VARIABLES tables, rows, cache, task, last, prev, sets, missed,
          opsLeft, faultsLeft, seq, nm

vars == <<tables, rows, cache, task, last, prev, sets, missed,
          opsLeft, faultsLeft, seq, nm>>

\* ------------------------------------------------------------------ bounds
MaxTasks == 2
MaxOps == 4
MaxSeqOps == 3
MaxCreators == 2
MaxFaults == 1
MaxSegLen == 2
MaxErrOps == 2
MaxWriteOps == 4

\* ------------------------------------------------------- strings and names
Contains(hay, needle) ==
    \E i \in 1..(Len(hay) + 1) :
        /\ i + Len(needle) - 1 <= Len(hay)
        /\ SubSeq(hay, i, i + Len(needle) - 1) = needle

\* TableCollection.collection_type of the modelled subclass
collection_type == <<"Jobs">>

\* the make_table attributes of the modelled subclass, by attribute name
Roles == {<<"items">>, <<"log">>}

Names == {<<"a">>}

\* TableCollection.get_table_name
TC_get_table_name(ctype, name, role) ==
    ctype \o <<"_">> \o name \o <<"_">> \o role

\* CollectionMetadata.get_table_name
CM_get_table_name(role, name) == role \o <<"_">> \o name

MetaTable == CM_get_table_name(<<"collection_metadata">>, collection_type)

\* variant: the tables in the reverse of their sorted order
TC_sorted_tables_reversed(name) ==
    << TC_get_table_name(collection_type, name, <<"log">>),
       TC_get_table_name(collection_type, name, <<"items">>) >>

\* MetaData.sorted_tables of a TableCollection named name
TC_sorted_tables(name) ==
    << TC_get_table_name(collection_type, name, <<"items">>),
       TC_get_table_name(collection_type, name, <<"log">>) >>

\* MetaData.sorted_tables of the CollectionMetadata
CM_sorted_tables == << MetaTable >>

\* ------------------------------------------------------------ Python values
PyNone == [t |-> "None"]
PyBool(b) == [t |-> "bool", b |-> b]
PyDict(items) == [t |-> "dict", items |-> items]

USD == PyDict({<<"currency", "USD">>})
EUR == PyDict({<<"currency", "EUR">>})
EmptyDict == PyDict({})

\* metadata payloads passed by callers: JSON objects
Payloads == {USD, EUR}

\* json.dumps of a metadata value, as the token text stored in metadata_json
RECURSIVE dumps_items(_)
dumps_items(S) ==
    IF S = {} THEN <<>>
    ELSE LET it == CHOOSE x \in S : TRUE
             rest == S \ {it}
         IN  <<it[1], ":", it[2]>> \o
             (IF rest = {} THEN <<>> ELSE <<",">> \o dumps_items(rest))

\* variant: serialises an empty object whatever the payload
json_dumps_blank(v) ==
    IF v = PyNone THEN <<"null">> ELSE <<"{", "}">>

json_dumps(v) ==
    IF v = PyNone THEN <<"null">>
    ELSE <<"{">> \o dumps_items(v.items) \o <<"}">>

\* json.loads of a stored metadata_json text
RECURSIVE loads_items(_, _)
loads_items(txt, i) ==
    IF i > Len(txt) \/ txt[i] = "}" THEN {}
    ELSE {<<txt[i], txt[i + 2]>>} \cup
         loads_items(txt, IF txt[i + 3] = "," THEN i + 4 ELSE i + 3)

json_loads(txt) ==
    IF txt = <<"null">> THEN PyNone ELSE PyDict(loads_items(txt, 2))

\* ------------------------------------------------------ failures and results
Err(cls, text) == [cls |-> cls, text |-> text]
Ok(v) == [ok |-> TRUE, val |-> v]
Fail(e) == [ok |-> FALSE, val |-> e]

CollectionMissingError(name) == Err("CollectionMissingError", name)
TableMissingError(text) == Err("TableMissingError", text)

\* what the backend reports
NoSuchTable(tbl) == Err("OperationalError", <<"no such table: ">> \o tbl)
ExistsPlain(tbl) ==
    Err("OperationalError", <<"table ">> \o tbl \o <<" already exists">>)
ExistsQuoted(tbl) ==
    Err("OperationalError",
        <<"table ", "\"">> \o tbl \o <<"\"", " already exists">>)
DuplicateKey(name) ==
    Err("IntegrityError", <<"column name is not unique: ">> \o name)
Locked == Err("OperationalError", <<"database is locked">>)
Cancelled == Err("CancelledError", <<"cancelled">>)

\* str(f.value) of a backend failure
StrOf(e) == <<"(", e.cls, ") ">> \o e.text \o <<" [statement]">>

\* variant: the unquoted template is missing
table_exists_err_templates_quoted(tbl) ==
    { <<"table ", "\"">> \o tbl \o <<"\"", " already exists">> }

\* _PrefixedTables._create_table.table_exists_err_templates, filled in
table_exists_err_templates(tbl) ==
    { <<"table ">> \o tbl \o <<" already exists">>,
      <<"table ", "\"">> \o tbl \o <<"\"", " already exists">> }

\* variant: the message is compared with the template for equality
table_exists_errback_eq(e, tbl) ==
    /\ e.cls = "OperationalError"
    /\ StrOf(e) \in { <<"table ">> \o tbl \o <<" already exists">>,
                      <<"table ", "\"">> \o tbl \o <<"\"", " already exists">> }

\* variant: every OperationalError is absorbed
table_exists_errback_any(e, tbl) == e.cls = "OperationalError"

\* _PrefixedTables._create_table.table_exists_errback: TRUE when the failure
\* is absorbed, FALSE when it is passed on
table_exists_errback(e, tbl) ==
    /\ e.cls = "OperationalError"
    /\ \E tpl \in table_exists_err_templates(tbl) : Contains(StrOf(e), tpl)

\* variant: no failure is converted
table_missing_errback_never(e) == e

\* variant: every failure is converted
table_missing_errback_wrap(e) == TableMissingError(StrOf(e))

\* _PrefixedTables.execute_query.table_missing_errback
table_missing_errback(e) ==
    IF e.cls = "OperationalError" /\ Contains(StrOf(e), <<"no such table: ">>)
    THEN TableMissingError(StrOf(e))
    ELSE e

\* variant: a missing row is passed on as a result
raise_if_none_pass(metadata, name) == Ok(metadata)

\* CollectionMetadata._raise_if_none
raise_if_none(metadata, name) ==
    IF metadata = PyNone THEN Fail(CollectionMissingError(name))
    ELSE Ok(metadata)

\* variant: every failure is answered with False
missing_to_false_all(r, name) ==
    IF r.ok THEN Ok(PyBool(TRUE)) ELSE Ok(PyBool(FALSE))

\* variant: CollectionMissingError is not trapped
missing_to_false_notrap(r, name) ==
    IF r.ok THEN Ok(PyBool(TRUE)) ELSE r

\* CollectionMetadata.collection_exists: the callback pair on get_metadata
missing_to_false(r, name) ==
    IF r.ok THEN Ok(PyBool(TRUE))
    ELSE IF r.val.cls = "CollectionMissingError" THEN Ok(PyBool(FALSE))
    ELSE r

\* variant: the cache is left as it was
update_metadata_drop(c, name, metadata) == c

\* CollectionMetadata._update_metadata (clear is never passed by the module)
update_metadata(c, name, metadata) ==
    [x \in DOMAIN c \cup {name} |-> IF x = name THEN metadata ELSE c[x]]

\* variant: nothing is popped
cache_pop_keep(c, name) == c

\* dict.pop(name, None) in set_metadata
cache_pop(c, name) == [x \in DOMAIN c \ {name} |-> c[x]]

EmptyCache == [x \in {} |-> PyNone]

\* ------------------------------------------------------------------- state
\* tables    : the physical tables present in the database
\* rows      : the collection_metadata table, name -> metadata_json
\* cache     : per CollectionMetadata instance, its _metadata_cache dict
\* task      : the operations in flight, each a Deferred chain at some stage
\* last/prev : the two most recently completed operations of the live store
\*             instances, and their results
\* sets      : per store and name, the set_metadata calls issued so far
\* opsLeft   : operations the callers may still start
\* faultsLeft: failures the backend may still raise on its own
\* seq       : the caller awaits each operation before starting the next
\* missed    : get_metadata(name) on the store raised CollectionMissingError
\* nm        : inputs and outputs of get_table_name (naming specification)
Stores == {"S", "T"}
Tasks == 1..MaxTasks

RowOf(r, name) == IF name \in DOMAIN r THEN <<r[name]>> ELSE <<>>
CacheOf(c, name) == IF name \in DOMAIN c THEN <<c[name]>> ELSE <<>>

AnyName == CHOOSE n \in Names : TRUE

\* the names of the scenario with a second collection beside the first
AllNames == Names \cup {<<"b">>}

\* the entries of cache c for the names other than name
Others(c, name) == [x \in DOMAIN c \ {name} |-> c[x]]

\* no write issued yet through a store for a name: the number of
\* set_metadata calls (up to 2), the latest payload, whether each was issued
\* on a registered name after the one before had completed, and the payload
\* of the INSERT of the store that the backend accepted
NoSets == [n |-> 0, arg |-> PyNone, clean |-> TRUE, inserted |-> <<>>]

IdleTask ==
    [op |-> "none", store |-> "S", name |-> AnyName, arg |-> PyNone,
     pc |-> "idle", i |-> 0, reply |-> Ok(<<>>), solo |-> FALSE,
     fault |-> FALSE, cold |-> FALSE, row0 |-> <<>>, w0 |-> NoSets,
     m0 |-> FALSE, si0 |-> FALSE, trx |-> "none", attempted |-> <<>>,
     failures |-> <<>>, c0 |-> <<>>, raw |-> <<>>, stmts |-> <<>>,
     log |-> <<>>, meta0 |-> FALSE, others0 |-> EmptyCache]

NoOp ==
    [op |-> "none", store |-> "S", name |-> AnyName, arg |-> PyNone,
     res |-> Ok(PyNone), solo |-> FALSE, fault |-> FALSE, cold |-> FALSE,
     row0 |-> <<>>, w0 |-> NoSets,
     m0 |-> FALSE, si0 |-> FALSE, rowEnd |-> <<>>, cacheEnd |-> <<>>,
     trx |-> "none", attempted |-> <<>>, failures |-> <<>>,
     c0 |-> <<>>, raw |-> <<>>, stmts |-> <<>>, log |-> <<>>,
     cachePre |-> <<>>, meta0 |-> FALSE, metaEnd |-> FALSE,
     others0 |-> EmptyCache, othersEnd |-> EmptyCache]

NoNaming == [x |-> <<>>, y |-> <<>>, px |-> <<>>, py |-> <<>>, done |-> FALSE]

Quiescent == \A k \in Tasks : task[k].pc = "idle"

\* some set_metadata for name n was issued on some store
SetIssued(n) == \E s \in Stores : sets[s][n].n > 0

InitDb(tbls, registered, ops, faults, awaited) ==
    /\ tables = tbls
    /\ rows = [x \in registered |-> json_dumps(EmptyDict)]
    /\ cache = [s \in Stores |-> EmptyCache]
    /\ task = [k \in Tasks |-> IdleTask]
    /\ last = NoOp
    /\ prev = NoOp
    /\ sets = [s \in Stores |-> [n \in AllNames |-> NoSets]]
    /\ missed = [s \in Stores |-> [n \in AllNames |-> FALSE]]
    /\ opsLeft = ops
    /\ faultsLeft = faults
    /\ seq = awaited

InitWith(tbls, registered, ops, faults, awaited) ==
    /\ InitDb(tbls, registered, ops, faults, awaited)
    /\ nm = NoNaming

\* the database with or without the type's metadata table
Init ==
    \E tbls \in {{}, {MetaTable}} :
        InitWith(tbls, {}, MaxOps, MaxFaults, FALSE)

\* a new operation takes the lowest free slot
FreeSlot == CHOOSE k \in Tasks :
    /\ task[k].pc = "idle"
    /\ \A j \in Tasks : task[j].pc = "idle" => k <= j

CanStart ==
    /\ opsLeft > 0
    /\ \E k \in Tasks : task[k].pc = "idle"
    /\ seq => Quiescent

NewTask(op, s, n, arg) ==
    [op |-> op, store |-> s, name |-> n, arg |-> arg, pc |-> "start",
     i |-> 0, reply |-> Ok(<<>>), solo |-> Quiescent, fault |-> FALSE,
     cold |-> n \notin DOMAIN cache[s], row0 |-> RowOf(rows, n),
     w0 |-> sets[s][n], m0 |-> missed[s][n], si0 |-> SetIssued(n),
     trx |-> "none", attempted |-> <<>>, failures |-> <<>>,
     c0 |-> CacheOf(cache[s], n), raw |-> <<>>, stmts |-> <<>>,
     log |-> <<>>, meta0 |-> MetaTable \in tables,
     others0 |-> Others(cache[s], n)]

\* the other operations in flight overlap the one being started
Overlapped == [j \in Tasks |-> [task[j] EXCEPT !.solo = FALSE]]

\* prev keeps the operation completed before the last one when it was a
\* write that ran alone
Remembered(l) ==
    /\ l.op \in {"set_metadata", "create_tables"}
    /\ l.solo

\* the Deferred of operation t fires with res
Finish(base, k, t, res) ==
    /\ task' = [base EXCEPT ![k] = IdleTask]
    /\ prev' = IF Remembered(last) THEN last ELSE NoOp
    /\ last' = [op |-> t.op, store |-> t.store, name |-> t.name,
                arg |-> t.arg, res |-> res, solo |-> t.solo,
                fault |-> t.fault, cold |-> t.cold, row0 |-> t.row0,
                w0 |-> t.w0, m0 |-> t.m0, si0 |-> t.si0,
                rowEnd |-> RowOf(rows', t.name),
                cacheEnd |-> CacheOf(cache'[t.store], t.name),
                trx |-> t.trx, attempted |-> t.attempted,
                failures |-> t.failures, c0 |-> t.c0, raw |-> t.raw,
                stmts |-> t.stmts, log |-> t.log,
                cachePre |-> CacheOf(cache[t.store], t.name),
                meta0 |-> t.meta0, metaEnd |-> MetaTable \in tables,
                others0 |-> t.others0,
                othersEnd |-> Others(cache'[t.store], t.name)]
    /\ missed' = IF /\ t.op = "get_metadata"
                    /\ res = Fail(CollectionMissingError(t.name))
                 THEN [missed EXCEPT ![t.store][t.name] = TRUE]
                 ELSE missed

\* the statements execute_query sends to the backend
Statements == {"select", "update", "insert"}

\* operation t waits for the backend at stage pc
Await(base, k, t, pc) ==
    /\ task' = [base EXCEPT ![k] =
            [t EXCEPT !.pc = pc,
                      !.stmts = IF pc \in Statements
                                THEN Append(@, pc) ELSE @]]
    /\ UNCHANGED <<last, prev, missed>>

\* variant: the payload is stored as given
cc_metadata_asis(arg) == arg

\* create_collection: metadata defaults to {}
cc_metadata(arg) == IF arg = PyNone THEN EmptyDict ELSE arg

\* variant: create_collection inserts without looking at the answer of
\* collection_exists
AfterGet_always(base, k, t, g) ==
    LET e == missing_to_false(g, t.name) IN
    IF t.op = "get_metadata" THEN Finish(base, k, t, g)
    ELSE IF t.op = "collection_exists" THEN Finish(base, k, t, e)
    ELSE IF ~e.ok THEN Finish(base, k, t, e)
    ELSE Await(base, k, t, "insert")

\* what follows get_metadata's result g in operation t:
\*   get_metadata      - g is the result
\*   collection_exists - missing_to_false
\*   create_collection - collection_exists, then _create_collection
\*   create_tables     - create_collection after the commit
AfterGet(base, k, t, g) ==
    LET e == missing_to_false(g, t.name) IN
    IF t.op = "get_metadata" THEN Finish(base, k, t, g)
    ELSE IF t.op = "collection_exists" THEN Finish(base, k, t, e)
    ELSE IF ~e.ok THEN Finish(base, k, t, e)
    ELSE IF e.val = PyBool(TRUE) THEN Finish(base, k, t, Ok(PyNone))
    ELSE Await(base, k, t, "insert")

\* CollectionMetadata.get_metadata up to its first suspension point; the
\* cache is left as it is
EnterGet(base, k, t) ==
    IF t.name \in DOMAIN cache[t.store]
    THEN AfterGet(base, k, t, raise_if_none(cache[t.store][t.name], t.name))
    ELSE Await(base, k, t, "select")

\* ------------------------------------------------------------- operations
\* TableCollection.__init__ without collection_metadata: a new
\* CollectionMetadata instance, whose cache is empty, replaces store s
Construct(s) ==
    /\ \A k \in Tasks : task[k].pc # "idle" => task[k].store # s
    /\ cache[s] # EmptyCache
    /\ cache' = [cache EXCEPT ![s] = EmptyCache]
    /\ missed' = [missed EXCEPT ![s] = [n \in AllNames |-> FALSE]]
    /\ last' = IF last.store = s THEN NoOp ELSE last
    /\ prev' = IF prev.store = s \/ last.store = s THEN NoOp ELSE prev
    /\ UNCHANGED <<tables, rows, task, sets, opsLeft, faultsLeft, nm, seq>>

\* CollectionMetadata.get_metadata (TableCollection.get_metadata delegates)
get_metadata(s, n) ==
    /\ CanStart
    /\ rows' = rows
    /\ cache' = cache
    /\ EnterGet(Overlapped, FreeSlot, NewTask("get_metadata", s, n, PyNone))
    /\ opsLeft' = opsLeft - 1
    /\ UNCHANGED <<tables, sets, faultsLeft, nm, seq>>

\* CollectionMetadata.collection_exists (TableCollection.exists delegates)
collection_exists(s, n) ==
    /\ CanStart
    /\ rows' = rows
    /\ cache' = cache
    /\ EnterGet(Overlapped, FreeSlot,
                NewTask("collection_exists", s, n, PyNone))
    /\ opsLeft' = opsLeft - 1
    /\ UNCHANGED <<tables, sets, faultsLeft, nm, seq>>

\* CollectionMetadata.set_metadata (TableCollection.set_metadata delegates)
set_metadata(s, n, metadata) ==
    /\ CanStart
    /\ cache' = [cache EXCEPT ![s] = cache_pop(@, n)]
    /\ Await(Overlapped, FreeSlot, NewTask("set_metadata", s, n, metadata),
             "update")
    /\ sets' = [sets EXCEPT ![s][n] =
            [n |-> IF @.n < 2 THEN @.n + 1 ELSE 2,
             arg |-> metadata,
             inserted |-> @.inserted,
             clean |-> /\ @.clean
                       /\ n \in DOMAIN rows
                       /\ \A k \in Tasks :
                            ~ /\ task[k].op = "set_metadata"
                              /\ task[k].store = s
                              /\ task[k].name = n]]
    /\ opsLeft' = opsLeft - 1
    /\ UNCHANGED <<tables, rows, faultsLeft, nm, seq>>

\* CollectionMetadata.create_collection
create_collection(s, n, metadata) ==
    /\ CanStart
    /\ rows' = rows
    /\ cache' = cache
    /\ EnterGet(Overlapped, FreeSlot,
                NewTask("create_collection", s, n, metadata))
    /\ opsLeft' = opsLeft - 1
    /\ UNCHANGED <<tables, sets, faultsLeft, nm, seq>>

\* CollectionMetadata.create: _create_tables on the metadata table
create(s) ==
    /\ CanStart
    /\ Await(Overlapped, FreeSlot, NewTask("create", s, AnyName, PyNone),
             "begin")
    /\ opsLeft' = opsLeft - 1
    /\ UNCHANGED <<tables, rows, cache, sets, faultsLeft, nm, seq>>

\* TableCollection.create_tables: _create_tables, then create_collection
create_tables(s, n, metadata) ==
    /\ CanStart
    /\ Await(Overlapped, FreeSlot, NewTask("create_tables", s, n, metadata),
             "begin")
    /\ opsLeft' = opsLeft - 1
    /\ UNCHANGED <<tables, rows, cache, sets, faultsLeft, nm, seq>>

\* ---------------------------------------------------------------- backend
\* failures the backend may raise for any statement, while any are left
QueryFaults == IF faultsLeft > 0 THEN {Locked, Cancelled} ELSE {}

Reply(k, r, isFault) ==
    [task[k] EXCEPT !.reply = r, !.fault = @ \/ isFault,
                    !.raw = IF r.ok THEN @ ELSE <<r.val>>]

\* _conn.execute of the SELECT issued by get_metadata
ExecSelect(k) ==
    /\ task[k].pc = "select"
    /\ \/ /\ task' = [task EXCEPT ![k] =
                [Reply(k, IF MetaTable \in tables
                          THEN Ok(RowOf(rows, task[k].name))
                          ELSE Fail(NoSuchTable(MetaTable)), FALSE)
                    EXCEPT !.pc = "selected"]]
          /\ faultsLeft' = faultsLeft
       \/ \E f \in QueryFaults :
          /\ task' = [task EXCEPT ![k] =
                [Reply(k, Fail(f), TRUE) EXCEPT !.pc = "selected"]]
          /\ faultsLeft' = faultsLeft - 1
    /\ UNCHANGED <<tables, rows, cache, last, prev, sets, missed, opsLeft, nm, seq>>

\* get_metadata's callbacks on the SELECT: fetchone, _add_row_to_metadata,
\* _raise_if_none, and whatever the caller chained behind them
DeliverSelect(k) ==
    LET t == task[k]
        r == t.reply
        metadata == IF r.val = <<>> THEN PyNone ELSE json_loads(r.val[1])
    IN  /\ t.pc = "selected"
        /\ rows' = rows
        /\ IF r.ok
           THEN /\ cache' = [cache EXCEPT ![t.store] =
                                update_metadata(@, t.name, metadata)]
                /\ AfterGet(task, k, t, raise_if_none(metadata, t.name))
           ELSE /\ cache' = cache
                /\ AfterGet(task, k, t, Fail(table_missing_errback(r.val)))
        /\ UNCHANGED <<tables, sets, opsLeft, faultsLeft, nm, seq>>

\* _conn.execute of the UPDATE issued by set_metadata
ExecUpdate(k) ==
    LET t == task[k] IN
    /\ t.pc = "update"
    /\ \/ /\ MetaTable \in tables
          /\ rows' = IF t.name \in DOMAIN rows
                     THEN [rows EXCEPT ![t.name] = json_dumps(t.arg)]
                     ELSE rows
          /\ task' = [task EXCEPT ![k] =
                [Reply(k, Ok(<<>>), FALSE) EXCEPT !.pc = "updated"]]
          /\ faultsLeft' = faultsLeft
       \/ /\ MetaTable \notin tables
          /\ rows' = rows
          /\ task' = [task EXCEPT ![k] =
                [Reply(k, Fail(NoSuchTable(MetaTable)), FALSE)
                    EXCEPT !.pc = "updated"]]
          /\ faultsLeft' = faultsLeft
       \/ \E f \in QueryFaults :
          /\ rows' = rows
          /\ task' = [task EXCEPT ![k] =
                [Reply(k, Fail(f), TRUE) EXCEPT !.pc = "updated"]]
          /\ faultsLeft' = faultsLeft - 1
    /\ UNCHANGED <<tables, cache, last, prev, sets, missed, opsLeft, nm, seq>>

\* set_metadata's callbacks on the UPDATE
DeliverUpdate(k) ==
    LET t == task[k]
        r == t.reply
    IN  /\ t.pc = "updated"
        /\ rows' = rows
        /\ IF r.ok
           THEN /\ cache' = [cache EXCEPT ![t.store] =
                                update_metadata(@, t.name, t.arg)]
                /\ Finish(task, k, t, Ok(PyNone))
           ELSE /\ cache' = cache
                /\ Finish(task, k, t, Fail(table_missing_errback(r.val)))
        /\ UNCHANGED <<tables, sets, opsLeft, faultsLeft, nm, seq>>

\* _conn.execute of the INSERT issued by _create_collection
ExecInsert(k) ==
    LET t == task[k] IN
    /\ t.pc = "insert"
    /\ \/ /\ MetaTable \in tables
          /\ t.name \notin DOMAIN rows
          /\ rows' = [x \in DOMAIN rows \cup {t.name} |->
                        IF x = t.name THEN json_dumps(cc_metadata(t.arg))
                        ELSE rows[x]]
          /\ task' = [task EXCEPT ![k] =
                [Reply(k, Ok(<<>>), FALSE) EXCEPT !.pc = "inserted"]]
          /\ sets' = [sets EXCEPT ![t.store][t.name].inserted =
                                    <<cc_metadata(t.arg)>>]
          /\ faultsLeft' = faultsLeft
       \/ /\ MetaTable \in tables
          /\ t.name \in DOMAIN rows
          /\ rows' = rows
          /\ task' = [task EXCEPT ![k] =
                [Reply(k, Fail(DuplicateKey(t.name)), FALSE)
                    EXCEPT !.pc = "inserted"]]
          /\ sets' = sets
          /\ faultsLeft' = faultsLeft
       \/ /\ MetaTable \notin tables
          /\ rows' = rows
          /\ task' = [task EXCEPT ![k] =
                [Reply(k, Fail(NoSuchTable(MetaTable)), FALSE)
                    EXCEPT !.pc = "inserted"]]
          /\ sets' = sets
          /\ faultsLeft' = faultsLeft
       \/ \E f \in QueryFaults :
          /\ rows' = rows
          /\ task' = [task EXCEPT ![k] =
                [Reply(k, Fail(f), TRUE) EXCEPT !.pc = "inserted"]]
          /\ sets' = sets
          /\ faultsLeft' = faultsLeft - 1
    /\ UNCHANGED <<tables, cache, last, prev, missed, opsLeft, nm, seq>>

\* _create_collection's callbacks on the INSERT
DeliverInsert(k) ==
    LET t == task[k]
        r == t.reply
    IN  /\ t.pc = "inserted"
        /\ rows' = rows
        /\ IF r.ok
           THEN /\ cache' = [cache EXCEPT ![t.store] =
                                update_metadata(@, t.name,
                                                cc_metadata(t.arg))]
                /\ Finish(task, k, t, Ok(PyNone))
           ELSE /\ cache' = cache
                /\ Finish(task, k, t, Fail(table_missing_errback(r.val)))
        /\ UNCHANGED <<tables, sets, opsLeft, faultsLeft, nm, seq>>

\* --------------------------------------------------------- schema creation
\* self._metadata.sorted_tables of the object that runs _create_tables
SortedTables(t) ==
    IF t.op = "create" THEN CM_sorted_tables ELSE TC_sorted_tables(t.name)

\* some table other than tbl
OtherTable(tbl) ==
    IF tbl = MetaTable THEN TC_sorted_tables(AnyName)[1] ELSE MetaTable

\* failures the backend may raise for CREATE TABLE tbl besides the genuine
\* "already exists", while any are left
CreateFaults(tbl) ==
    IF faultsLeft > 0
    THEN {Locked, Cancelled, ExistsPlain(OtherTable(tbl)),
          ExistsQuoted(tbl \o <<"2">>),
          Err("ProgrammingError", ExistsPlain(tbl).text)}
    ELSE {}

\* what _create_tables asks of the connection, in the order it asks
Begin == [ev |-> "begin", tbl |-> <<>>]
CreateOf(tbl) == [ev |-> "create", tbl |-> tbl]
Commit == [ev |-> "commit", tbl |-> <<>>]

\* _create_tables: self._conn.begin()
ExecBegin(k) ==
    LET t == task[k] IN
    /\ t.pc = "begin"
    /\ cache' = cache
    /\ rows' = rows
    /\ \/ /\ Await(task, k, [t EXCEPT !.trx = "open", !.i = 1,
                                       !.log = Append(@, Begin)], "table")
          /\ faultsLeft' = faultsLeft
       \/ \E f \in QueryFaults :
          /\ Finish(task, k, [t EXCEPT !.fault = TRUE,
                                       !.log = Append(@, Begin)], Fail(f))
          /\ faultsLeft' = faultsLeft - 1
    /\ UNCHANGED <<tables, sets, opsLeft, nm, seq>>

\* variant: the commit follows the first table
NextTable_first(t) == [t EXCEPT !.pc = "commit"]

\* the stage after table i of operation t
NextTable(t) ==
    IF t.i < Len(SortedTables(t))
    THEN [t EXCEPT !.i = @ + 1]
    ELSE [t EXCEPT !.pc = "commit"]

\* _create_table: CREATE TABLE for the next table of sorted_tables, with
\* table_exists_errback on its failure
CreateTable(k) ==
    LET t == task[k]
        tbl == SortedTables(t)[t.i]
        tried == [t EXCEPT !.attempted = Append(@, tbl),
                           !.log = Append(@, CreateOf(tbl))]
        errback(e, isFault) ==
            LET absorbed == table_exists_errback(e, tbl)
                u == [tried EXCEPT
                        !.fault = @ \/ isFault,
                        !.failures = Append(@, [tbl |-> tbl, e |-> e,
                                                absorbed |-> absorbed])]
            IN  IF absorbed
                THEN /\ task' = [task EXCEPT ![k] = NextTable(u)]
                     /\ UNCHANGED <<last, prev, missed>>
                ELSE Finish(task, k, u, Fail(e))
    IN  /\ t.pc = "table"
        /\ cache' = cache
        /\ rows' = rows
        /\ \/ /\ tbl \notin tables
              /\ tables' = tables \cup {tbl}
              /\ task' = [task EXCEPT ![k] = NextTable(tried)]
              /\ faultsLeft' = faultsLeft
              /\ UNCHANGED <<last, prev, missed>>
           \/ /\ tbl \in tables
              /\ tables' = tables
              /\ faultsLeft' = faultsLeft
              /\ \E e \in {ExistsPlain(tbl), ExistsQuoted(tbl)} :
                    errback(e, FALSE)
           \/ \E f \in CreateFaults(tbl) :
              /\ tables' = tables
              /\ faultsLeft' = faultsLeft - 1
              /\ errback(f, TRUE)
        /\ UNCHANGED <<sets, opsLeft, nm, seq>>

\* _create_tables: trx.commit(); create_tables then calls create_collection
ExecCommit(k) ==
    LET t == task[k]
        u == [t EXCEPT !.trx = "committed", !.log = Append(@, Commit)]
    IN  /\ t.pc = "commit"
        /\ cache' = cache
        /\ rows' = rows
        /\ \/ /\ faultsLeft' = faultsLeft
              /\ IF t.op = "create"
                 THEN Finish(task, k, u, Ok(PyNone))
                 ELSE EnterGet(task, k, u)
           \/ \E f \in QueryFaults :
              /\ Finish(task, k, [t EXCEPT !.fault = TRUE,
                                           !.log = Append(@, Commit)],
                        Fail(f))
              /\ faultsLeft' = faultsLeft - 1
        /\ UNCHANGED <<tables, sets, opsLeft, nm, seq>>

\* ------------------------------------------------------------ specification
Args == {USD, PyNone}

Next ==
    \/ \E s \in Stores : Construct(s)
    \/ \E s \in Stores, n \in Names : get_metadata(s, n)
    \/ \E s \in Stores, n \in Names : collection_exists(s, n)
    \/ \E s \in Stores, n \in Names, p \in Payloads : set_metadata(s, n, p)
    \/ \E s \in Stores, n \in Names, p \in Args : create_collection(s, n, p)
    \/ \E s \in Stores : create(s)
    \/ \E s \in Stores, n \in Names, p \in Args : create_tables(s, n, p)
    \/ \E k \in Tasks : ExecSelect(k)
    \/ \E k \in Tasks : DeliverSelect(k)
    \/ \E k \in Tasks : ExecUpdate(k)
    \/ \E k \in Tasks : DeliverUpdate(k)
    \/ \E k \in Tasks : ExecInsert(k)
    \/ \E k \in Tasks : DeliverInsert(k)
    \/ \E k \in Tasks : ExecBegin(k)
    \/ \E k \in Tasks : CreateTable(k)
    \/ \E k \in Tasks : ExecCommit(k)

Spec == Init /\ [][Next]_vars

\* one store under concurrent reads and writes of a registered collection
NextRace ==
    \/ \E n \in Names : get_metadata("S", n)
    \/ \E n \in Names, p \in Payloads : set_metadata("S", n, p)
    \/ \E k \in Tasks : ExecSelect(k)
    \/ \E k \in Tasks : DeliverSelect(k)
    \/ \E k \in Tasks : ExecUpdate(k)
    \/ \E k \in Tasks : DeliverUpdate(k)

SpecRace == InitWith({MetaTable}, Names, MaxOps, 0, FALSE) /\ [][NextRace]_vars

\* a caller that awaits every operation, on handles over two stores
NextSeq ==
    \/ \E s \in Stores : Construct(s)
    \/ \E s \in Stores, n \in Names : get_metadata(s, n)
    \/ \E s \in Stores, n \in Names : collection_exists(s, n)
    \/ \E s \in Stores, n \in Names, p \in Payloads : set_metadata(s, n, p)
    \/ \E s \in Stores, n \in Names, p \in Args : create_collection(s, n, p)
    \/ \E s \in Stores, n \in Names, p \in Args : create_tables(s, n, p)
    \/ \E k \in Tasks : ExecSelect(k)
    \/ \E k \in Tasks : DeliverSelect(k)
    \/ \E k \in Tasks : ExecUpdate(k)
    \/ \E k \in Tasks : DeliverUpdate(k)
    \/ \E k \in Tasks : ExecInsert(k)
    \/ \E k \in Tasks : DeliverInsert(k)
    \/ \E k \in Tasks : ExecBegin(k)
    \/ \E k \in Tasks : CreateTable(k)
    \/ \E k \in Tasks : ExecCommit(k)

SpecSeq == InitWith({MetaTable}, {}, MaxSeqOps, 0, TRUE) /\ [][NextSeq]_vars

\* concurrent schema creation, with backend failures
NextCreators ==
    \/ \E s \in Stores : create(s)
    \/ \E s \in Stores, n \in Names, p \in {PyNone} : create_tables(s, n, p)
    \/ \E k \in Tasks : ExecSelect(k)
    \/ \E k \in Tasks : DeliverSelect(k)
    \/ \E k \in Tasks : ExecInsert(k)
    \/ \E k \in Tasks : DeliverInsert(k)
    \/ \E k \in Tasks : ExecBegin(k)
    \/ \E k \in Tasks : CreateTable(k)
    \/ \E k \in Tasks : ExecCommit(k)

SpecCreators ==
    /\ \E tbls \in {{}, {MetaTable}} :
            InitWith(tbls, {}, MaxCreators, MaxFaults, FALSE)
    /\ [][NextCreators]_vars


\* callers over two stores whose operations overlap, with a backend that
\* may fail and a metadata table that may never have been created
NextErrors ==
    \/ \E s \in Stores, n \in Names : get_metadata(s, n)
    \/ \E s \in Stores, n \in Names : collection_exists(s, n)
    \/ \E s \in Stores, n \in Names, p \in {EUR} : set_metadata(s, n, p)
    \/ \E s \in Stores, n \in Names, p \in Args : create_collection(s, n, p)
    \/ \E k \in Tasks : ExecSelect(k)
    \/ \E k \in Tasks : DeliverSelect(k)
    \/ \E k \in Tasks : ExecUpdate(k)
    \/ \E k \in Tasks : DeliverUpdate(k)
    \/ \E k \in Tasks : ExecInsert(k)
    \/ \E k \in Tasks : DeliverInsert(k)

SpecErrors ==
    /\ \E tbls \in {{}, {MetaTable}} :
            InitWith(tbls, {}, MaxErrOps, MaxFaults, FALSE)
    /\ [][NextErrors]_vars

\* a caller that awaits every operation, with a backend that may fail and a
\* metadata table that may never have been created
NextProbe ==
    \/ \E s \in Stores, n \in Names : get_metadata(s, n)
    \/ \E s \in Stores, n \in Names : collection_exists(s, n)
    \/ \E s \in Stores, n \in Names, p \in Args : create_tables(s, n, p)
    \/ \E k \in Tasks : ExecSelect(k)
    \/ \E k \in Tasks : DeliverSelect(k)
    \/ \E k \in Tasks : ExecInsert(k)
    \/ \E k \in Tasks : DeliverInsert(k)
    \/ \E k \in Tasks : ExecBegin(k)
    \/ \E k \in Tasks : CreateTable(k)
    \/ \E k \in Tasks : ExecCommit(k)

SpecProbe ==
    /\ \E tbls \in {{}, {MetaTable}} :
            InitWith(tbls, {}, MaxSeqOps, MaxFaults, TRUE)
    /\ [][NextProbe]_vars

\* a caller that awaits every read and write of two collections on one
\* store, with a backend that may fail
NextWrite ==
    \/ \E n \in AllNames : get_metadata("S", n)
    \/ \E n \in AllNames, p \in Payloads : set_metadata("S", n, p)
    \/ \E k \in Tasks : ExecSelect(k)
    \/ \E k \in Tasks : DeliverSelect(k)
    \/ \E k \in Tasks : ExecUpdate(k)
    \/ \E k \in Tasks : DeliverUpdate(k)

SpecWrite ==
    /\ \E tbls \in {{}, {MetaTable}} :
            InitWith(tbls, IF tbls = {} THEN {} ELSE AllNames,
                     MaxWriteOps, MaxFaults, TRUE)
    /\ [][NextWrite]_vars

TypeOK ==
    /\ tables \subseteq {MetaTable} \cup
                        {TC_sorted_tables(n)[i] : n \in Names, i \in 1..2}
    /\ DOMAIN rows \subseteq AllNames
    /\ \A s \in Stores : DOMAIN cache[s] \subseteq AllNames
    /\ opsLeft \in Nat
    /\ faultsLeft \in Nat

\* the naming function on its own: two (type, name, role) triples are drawn
\* and TableCollection.get_table_name is applied to each
TypeChars == {"a", "_"}
NameChars == {"a", "b", "_"}
SegsOver(chars) == UNION {[1..k -> chars] : k \in 1..MaxSegLen}
Triples ==
    [ctype : {<<"Jobs">>} \cup SegsOver(TypeChars),
     name : SegsOver(NameChars),
     role : Roles]

InitNaming ==
    /\ InitDb({}, {}, 0, 0, TRUE)
    /\ nm \in [x : Triples, y : Triples, px : {<<>>}, py : {<<>>},
               done : {FALSE}]

NameTables ==
    /\ ~nm.done
    /\ nm' = [nm EXCEPT
                !.px = TC_get_table_name(nm.x.ctype, nm.x.name, nm.x.role),
                !.py = TC_get_table_name(nm.y.ctype, nm.y.name, nm.y.role),
                !.done = TRUE]
    /\ UNCHANGED <<tables, rows, cache, task, last, prev, sets, missed,
                   opsLeft, faultsLeft, seq>>

NextNaming == NameTables

SpecNaming == InitNaming /\ [][NextNaming]_vars

\* -------------------------------------------------------------- properties
\* C1: after set_metadata(name, P1) and then set_metadata(name, P2) on one
\* store, with any get_metadata(name) calls in flight around them, a
\* get_metadata(name) issued once everything has completed returns P2.
C1_CacheCoherentUnderWrite ==
    ( /\ last.op = "get_metadata"
      /\ last.solo
      /\ last.w0.n = 2
      /\ last.w0.clean )
    => last.res = Ok(last.w0.arg)

\* the operations that ran alone from issue to completion
SoloGet == last.op = "get_metadata" /\ last.solo
SoloExists == last.op = "collection_exists" /\ last.solo

\* C2: once get_metadata(name) on a store has raised CollectionMissingError
\* and a row for name is created afterwards by any handle, the next
\* get_metadata(name) on that store returns the row's payload and
\* collection_exists(name) on it returns true.
C2_AbsenceNeverCached ==
    ( /\ SoloGet \/ SoloExists
      /\ last.m0
      /\ last.row0 # <<>>
      /\ ~last.si0 )
    => last.res = IF last.op = "get_metadata"
                  THEN Ok(json_loads(last.row0[1]))
                  ELSE Ok(PyBool(TRUE))

\* C3: with no operation in flight, collection_exists(name) returns true
\* exactly when the metadata table holds a row whose key is name.
C3_RowPresenceIsExistence ==
    SoloExists => (last.res = Ok(PyBool(TRUE)) <=> last.row0 # <<>>)

\* two create_tables calls in sequence on one handle, the first on a
\* collection without a row
TwiceCreated ==
    /\ prev.op = "create_tables" /\ prev.solo /\ prev.res.ok
    /\ prev.row0 = <<>>
    /\ last.op = "create_tables" /\ last.solo
    /\ last.store = prev.store /\ last.name = prev.name

\* C4: the second of two create_tables calls in sequence on a previously
\* unregistered collection completes without failure and leaves the same
\* row and the same cached payload as the first.
C4_IdempotentCreation ==
    TwiceCreated =>
        /\ last.res.ok
        /\ last.rowEnd = prev.rowEnd
        /\ last.cacheEnd = prev.cacheEnd

C4_Witness ==
    /\ TwiceCreated
    /\ last.arg # prev.arg
    /\ last.rowEnd # <<>>
    /\ \E i \in DOMAIN last.failures : last.failures[i].absorbed

\* exists() on a handle after create_tables() completed on a fresh handle
\* of a collection that had no row
ExistsAfterCreate ==
    /\ prev.op = "create_tables" /\ prev.solo /\ prev.res.ok
    /\ prev.cold /\ prev.row0 = <<>>
    /\ SoloExists /\ last.name = prev.name
    /\ last.store = prev.store \/ last.cold

\* C5: exists() is false on a fresh handle of a collection that was never
\* registered, and true after create_tables() has completed, on that handle
\* and on a newly constructed one.
C5_ExistenceBeforeAfter ==
    /\ (SoloExists /\ last.cold /\ last.row0 = <<>>)
            => last.res = Ok(PyBool(FALSE))
    /\ ExistsAfterCreate => last.res = Ok(PyBool(TRUE))

C5_Witness ==
    /\ ExistsAfterCreate
    /\ last.store # prev.store
    /\ last.cold
    /\ last.res = Ok(PyBool(TRUE))

\* get_metadata() after set_metadata(P) completed on a registered
\* collection, on the writing handle or on one with an empty cache
GetAfterSet ==
    /\ prev.op = "set_metadata" /\ prev.solo /\ prev.res.ok
    /\ prev.row0 # <<>>
    /\ SoloGet /\ last.name = prev.name
    /\ last.store = prev.store \/ last.cold

\* C6: set_metadata(P) followed by get_metadata() returns exactly P, on the
\* handle that wrote it and on an independently constructed handle that
\* reads the persisted row.
C6_MetadataRoundTrip ==
    GetAfterSet => last.res = Ok(prev.arg)

C6_Witness ==
    /\ GetAfterSet
    /\ last.store # prev.store
    /\ last.cold
    /\ last.res = Ok(USD)

C8_NamingInjective ==
    (nm.done /\ nm.x # nm.y) => nm.px # nm.py

\* a schema creation that has completed
Created == last.op \in {"create", "create_tables"}

\* the already-exists reports of the backend for table tbl
AlreadyExists(tbl) == {ExistsPlain(tbl), ExistsQuoted(tbl)}

\* C9: concurrent _create_tables runs that meet no backend failure other than
\* "table already exists" for the table being created all reach their
\* commit without a failure, and their declared tables then exist.
C9_ConcurrentCreatorsConverge ==
    (Created /\ faultsLeft = MaxFaults) =>
        /\ last.trx = "committed"
        /\ last.op = "create" => last.res.ok
        /\ last.attempted = SortedTables(last)
        /\ \A i \in DOMAIN SortedTables(last) :
                SortedTables(last)[i] \in tables

C9_Witness ==
    /\ Created /\ faultsLeft = MaxFaults /\ ~last.solo
    /\ last.op = "create_tables"
    /\ Len(last.failures) = 1
    /\ last.failures[1].absorbed
    /\ last.failures[1].tbl = SortedTables(last)[2]
    /\ last.trx = "committed"

\* C10: _create_table absorbs a CREATE TABLE failure only when it is an
\* OperationalError reporting that the table being created already exists;
\* any other failure ends _create_tables with that failure, unchanged, with
\* no later table attempted and no commit.
C10_AbsorbsOnlyAlreadyExists ==
    Created =>
        \A i \in DOMAIN last.failures :
            LET f == last.failures[i] IN
            /\ f.absorbed => f.e \in AlreadyExists(f.tbl)
            /\ ~f.absorbed =>
                /\ last.res = Fail(f.e)
                /\ i = Len(last.failures)
                /\ last.attempted[Len(last.attempted)] = f.tbl
                /\ \E j \in DOMAIN SortedTables(last) :
                        /\ SortedTables(last)[j] = f.tbl
                        /\ last.attempted = SubSeq(SortedTables(last), 1, j)
                /\ last.trx = "open"

C10_Witness ==
    /\ Created
    /\ last.op = "create_tables"
    /\ Len(last.failures) = 1
    /\ ~last.failures[1].absorbed
    /\ last.failures[1].e \in
            {ExistsPlain(MetaTable), Cancelled,
             Err("ProgrammingError", ExistsPlain(last.failures[1].tbl).text)}
    /\ Len(last.attempted) = 1
    /\ last.res = Fail(last.failures[1].e)

\* the operation completed last ended on a failure of the backend
BackendFailed == last.op # "none" /\ last.raw # <<>>

SetOnUnregistered(l) ==
    /\ l.op = "set_metadata"
    /\ l.solo
    /\ l.row0 = <<>>
    /\ l.res.ok

\* the last operation follows an awaited set_metadata of an unregistered
\* name on the same store
AfterSetOnUnregistered ==
    /\ SetOnUnregistered(prev)
    /\ last.solo
    /\ last.store = prev.store
    /\ last.name = prev.name

\* C12: set_metadata(name, P) on a name without a row completes without
\* error, creates no row and leaves the cache holding P; the next
\* get_metadata(name) on the store returns P, and the next
\* create_collection(name, Q) on the store inserts nothing
C12_SetOnUnregisteredName ==
    /\ (last.op = "set_metadata" /\ last.solo /\ last.row0 = <<>>
        /\ MetaTable \in tables /\ ~last.fault) =>
            /\ last.res = Ok(PyNone)
            /\ last.rowEnd = <<>>
            /\ last.cacheEnd = <<last.arg>>
    /\ (AfterSetOnUnregistered /\ last.op = "get_metadata") =>
            /\ last.res = Ok(prev.arg)
            /\ last.stmts = <<>>
    /\ (AfterSetOnUnregistered /\ last.op = "create_collection") =>
            /\ last.res = Ok(PyNone)
            /\ last.stmts = <<>>
            /\ last.rowEnd = last.row0
            /\ last.cacheEnd = <<prev.arg>>

C12_Witness ==
    /\ AfterSetOnUnregistered
    /\ last.op = "create_collection"
    /\ last.arg # prev.arg
    /\ last.rowEnd = <<>>
    /\ last.cacheEnd = <<prev.arg>>

\* the tables a TableCollection named n declares
DeclaredTables(n) ==
    {TC_get_table_name(collection_type, n, role) : role \in Roles}

\* C13: in every state reached by create_tables calls of any number of
\* handles, interleaved in any way, each of which may stop or meet a backend
\* failure at any step, a collection whose metadata row is present has all
\* its declared tables
C13_TablesBeforeRegistration ==
    \A n \in DOMAIN rows : DeclaredTables(n) \subseteq tables

C13_Witness ==
    /\ DOMAIN rows # {}
    /\ faultsLeft < MaxFaults
    /\ last.op = "create_tables"
    /\ last.fault
    /\ ~last.res.ok
    /\ last.trx = "open"
    /\ \E k \in Tasks : task[k].op = "create_tables" /\ task[k].pc = "inserted"

\* C14: collection_exists gives true when get_metadata succeeds and false
\* only when it raises CollectionMissingError; every other failure is passed
\* on. While the type's metadata table has not been created, exists() and
\* create_tables() fail with TableMissingError: they neither report false nor
\* create the metadata table
C14_ExistsErrorMapping ==
    /\ last.op = "collection_exists" =>
        /\ last.res = Ok(PyBool(TRUE)) =>
                /\ last.raw = <<>>
                /\ last.cacheEnd # <<>>
                /\ last.cacheEnd # <<PyNone>>
        /\ last.res = Ok(PyBool(FALSE)) =>
                /\ last.raw = <<>>
                /\ last.cacheEnd = <<PyNone>>
        /\ last.res.ok => last.res.val \in {PyBool(TRUE), PyBool(FALSE)}
        /\ ~last.res.ok =>
                /\ last.raw # <<>>
                /\ last.res.val.cls # "CollectionMissingError"
                /\ last.raw[1] # NoSuchTable(MetaTable) =>
                        last.res = Fail(last.raw[1])
    /\ (/\ last.op \in {"collection_exists", "create_tables"}
        /\ ~last.meta0
        /\ ~last.fault) =>
            /\ ~last.res.ok
            /\ last.res.val.cls = "TableMissingError"
            /\ ~last.metaEnd

C14_Witness ==
    /\ last.op = "create_tables"
    /\ ~last.meta0
    /\ ~last.metaEnd
    /\ DeclaredTables(last.name) \subseteq tables
    /\ last.trx = "committed"
    /\ ~last.res.ok
    /\ last.res.val.cls = "TableMissingError"
    /\ prev.op = "none"

\* create_tables ran alone on a handle with an empty cache, met no backend
\* failure, and found the metadata table and every declared table present
\* but no row for the name
Recovering(l) ==
    /\ l.op = "create_tables"
    /\ l.solo
    /\ l.c0 = <<>>
    /\ l.meta0
    /\ l.row0 = <<>>
    /\ ~l.fault
    /\ Len(l.failures) = Len(TC_sorted_tables(l.name))
    /\ \A i \in DOMAIN l.failures : l.failures[i].absorbed

\* C15: from the state a creator leaves behind when it stops between
\* creating the tables and registering the collection, create_tables(payload)
\* on a fresh handle completes without failure; afterwards exists() is true
\* and get_metadata() returns the payload, or {} when none was given
C15_CrashRecovery ==
    /\ Recovering(last) =>
            /\ last.res = Ok(PyNone)
            /\ last.trx = "committed"
            /\ last.rowEnd = <<json_dumps(cc_metadata(last.arg))>>
    /\ (/\ Recovering(prev)
        /\ last.solo /\ ~last.fault
        /\ last.store = prev.store /\ last.name = prev.name) =>
            /\ last.op = "collection_exists" =>
                    last.res = Ok(PyBool(TRUE))
            /\ last.op = "get_metadata" =>
                    last.res = Ok(cc_metadata(prev.arg))

C15_Witness ==
    /\ Recovering(prev)
    /\ prev.arg = PyNone
    /\ last.op = "get_metadata"
    /\ last.store = prev.store
    /\ last.res = Ok(EmptyDict)

\* a is an initial part of b
IsPrefix(a, b) == Len(a) <= Len(b) /\ SubSeq(b, 1, Len(a)) = a

\* what a complete _create_tables run of operation op on name n asks of the
\* connection: begin, a CREATE TABLE per table in the order of the table
\* names, commit
ExpectedLog(op, n) ==
    IF op = "create"
    THEN <<Begin, CreateOf(MetaTable), Commit>>
    ELSE <<Begin,
           CreateOf(TC_get_table_name(collection_type, n, <<"items">>)),
           CreateOf(TC_get_table_name(collection_type, n, <<"log">>)),
           Commit>>

\* C16: within one _create_tables call the transaction is begun before any
\* CREATE TABLE, the CREATE TABLEs are sent one at a time in sorted-table
\* order, each after the outcome of the one before, and the commit is sent
\* once, after the last table has been attempted
C16_SequencedCreation ==
    /\ \A k \in Tasks :
        task[k].op \in {"create", "create_tables"} =>
            /\ IsPrefix(task[k].log, ExpectedLog(task[k].op, task[k].name))
            /\ task[k].pc = "table" =>
                    Len(task[k].log) = task[k].i
            /\ task[k].trx = "committed" =>
                    task[k].log = ExpectedLog(task[k].op, task[k].name)
    /\ Created =>
            /\ IsPrefix(last.log, ExpectedLog(last.op, last.name))
            /\ last.trx = "committed" =>
                    last.log = ExpectedLog(last.op, last.name)
            /\ (\E i \in DOMAIN last.failures :
                    ~last.failures[i].absorbed) =>
                    /\ last.log[Len(last.log)].ev = "create"
                    /\ last.trx = "open"

C16_Witness ==
    /\ Created
    /\ last.op = "create_tables"
    /\ ~last.solo
    /\ last.trx = "committed"
    /\ last.log = ExpectedLog(last.op, last.name)
    /\ Len(last.failures) = 1

\* how many statements of kind q operation l sent
Sent(l, q) == Cardinality({i \in DOMAIN l.stmts : l.stmts[i] = q})

\* what the existence check of an operation that ran alone observed for its
\* name: the cache entry if there was one, the row otherwise
Observed(l) ==
    IF l.c0 # <<>> THEN l.c0
    ELSE IF l.row0 = <<>> THEN <<PyNone>>
    ELSE <<json_loads(l.row0[1])>>

\* C17: when collection_exists(name) is true, create_collection(name,
\* payload) sends no INSERT and leaves the row and the cache entry as the
\* existence check found them, whatever the payload; when it is false,
\* exactly one INSERT of (name, payload) is sent, and on its success the
\* cache entry becomes the payload
C17_CreateExistingIsNoOp ==
    (last.op = "create_collection" /\ last.solo /\ last.meta0
     /\ ~last.fault) =>
        /\ Observed(last) # <<PyNone>> =>
                /\ last.res = Ok(PyNone)
                /\ Sent(last, "insert") = 0
                /\ Sent(last, "update") = 0
                /\ last.rowEnd = last.row0
                /\ last.cacheEnd = Observed(last)
        /\ Observed(last) = <<PyNone>> =>
                /\ Sent(last, "insert") = 1
                /\ last.res.ok =>
                        /\ last.row0 = <<>>
                        /\ last.rowEnd =
                                <<json_dumps(cc_metadata(last.arg))>>
                        /\ last.cacheEnd = <<cc_metadata(last.arg)>>
                /\ ~last.res.ok =>
                        /\ last.rowEnd = last.row0
                        /\ last.cacheEnd = <<PyNone>>

C17_Witness ==
    /\ last.op = "create_collection"
    /\ last.solo
    /\ last.arg = USD
    /\ last.row0 # <<>>
    /\ last.row0 # <<json_dumps(USD)>>
    /\ last.c0 # <<>>
    /\ last.c0 # <<PyNone>>
    /\ last.stmts = <<>>
    /\ last.rowEnd = last.row0
    /\ last.cacheEnd = last.c0

\* the cache of store s holds a payload for name n
HoldsPayload(c, s, n) == CacheOf(c[s], n) \notin {<<>>, <<PyNone>>}

\* the step starts or completes a stage of a set_metadata(n, ...) on store s
SetMetadataStep(s, n) ==
    \E k \in Tasks :
        /\ task[k].pc # task'[k].pc
        /\ LET t == IF task[k].pc = "idle" THEN task'[k] ELSE task[k]
           IN  t.op = "set_metadata" /\ t.store = s /\ t.name = n

\* the step replaces store s by a new CollectionMetadata instance
ConstructStep(s) ==
    /\ cache'[s] = EmptyCache
    /\ task' = task
    /\ opsLeft' = opsLeft

\* C18: once a store's cache holds a payload for a name, get_metadata on the
\* store returns it without a backend query and without changing the cache,
\* and only a set_metadata of that name on that store removes or replaces
\* the entry
C18_CacheHitsNeverExpire ==
    [][/\ (last'.op = "get_metadata"
           /\ last'.c0 \notin {<<>>, <<PyNone>>}) =>
                /\ last'.res = Ok(last'.c0[1])
                /\ last'.stmts = <<>>
                /\ last'.cacheEnd = last'.c0
       /\ \A s \in Stores, n \in Names :
            (/\ HoldsPayload(cache, s, n)
             /\ CacheOf(cache'[s], n) # CacheOf(cache[s], n)) =>
                SetMetadataStep(s, n) \/ ConstructStep(s)]_vars

\* set_metadata ran alone and its UPDATE failed at the backend
FailedSet(l) ==
    /\ l.op = "set_metadata"
    /\ l.solo
    /\ l.raw # <<>>

\* C19: when the UPDATE of set_metadata(name, P) fails, the failure reaches
\* the caller, the cache holds no entry for name (neither the value from
\* before the write nor P), the entries of the other names are as they
\* were, and the next get_metadata(name) reads the persisted row
C19_FailedWriteInvalidates ==
    /\ FailedSet(last) =>
            /\ ~last.res.ok
            /\ last.raw[1] # NoSuchTable(MetaTable) =>
                    last.res = Fail(last.raw[1])
            /\ last.raw[1] = NoSuchTable(MetaTable) =>
                    last.res.val.cls = "TableMissingError"
            /\ last.cacheEnd = <<>>
            /\ last.othersEnd = last.others0
            /\ last.rowEnd = last.row0
    /\ (/\ FailedSet(prev)
        /\ last.op = "get_metadata" /\ last.solo
        /\ last.store = prev.store /\ last.name = prev.name) =>
            /\ last.c0 = <<>>
            /\ last.stmts = <<"select">>
            /\ last.raw = <<>> =>
                    last.res = IF last.row0 = <<>>
                               THEN Fail(CollectionMissingError(last.name))
                               ELSE Ok(json_loads(last.row0[1]))

C19_Witness ==
    /\ FailedSet(prev)
    /\ prev.c0 \notin {<<>>, <<prev.arg>>}
    /\ prev.others0 # EmptyCache
    /\ prev.cacheEnd = <<>>
    /\ last.op = "get_metadata"
    /\ last.name = prev.name
    /\ last.stmts = <<"select">>
    /\ last.res = Ok(prev.c0[1])

\* the registration completed last sent an INSERT that the backend refused
\* because the row was already there
LostRace(l) ==
    /\ l.op \in {"create_collection", "create_tables"}
    /\ l.raw = <<DuplicateKey(l.name)>>

\* the stores other than that of l whose INSERT for the name of l the
\* backend accepted
Winners(l) ==
    {w \in Stores \ {l.store} : sets[w][l.name].inserted # <<>>}

\* C20: when two handles with separate stores register the same name
\* concurrently and both find it absent, one row for the name results and it
\* holds the winner's payload; the loser's call fails with the backend's
\* duplicate-key failure as raised, and the loser's cache is not given the
\* loser's payload
C20_RacingRegistration ==
    LostRace(last) =>
        /\ last.res = Fail(DuplicateKey(last.name))
        /\ last.cacheEnd = last.cachePre
        /\ last.rowEnd # <<>>
        /\ \A w \in Winners(last) :
            ~SetIssued(last.name) =>
                /\ last.rowEnd =
                        <<json_dumps(sets[w][last.name].inserted[1])>>
                /\ RowOf(rows, last.name) = last.rowEnd

C20_Witness ==
    /\ LostRace(last)
    /\ ~last.solo
    /\ last.row0 = <<>>
    /\ last.stmts = <<"select", "insert">>
    /\ \E w \in Winners(last) :
        /\ sets[w][last.name].inserted # <<cc_metadata(last.arg)>>
        /\ last.rowEnd = <<json_dumps(sets[w][last.name].inserted[1])>>
    /\ last.cacheEnd = <<PyNone>>
    /\ last.res = Fail(DuplicateKey(last.name))

====
